---- MODULE Spec2Model ----
(***************************************************************************)
(* Model of the publish data path of sensor-gate:                          *)
(*   app/api/sensors.py      submit_sensor_data (the HTTP handler)         *)
(*   app/services/pubsub.py  PubSubService.publish_sensor_data,            *)
(*                           PubSubService._publish_message (tenacity      *)
(*                           retry), CircuitBreaker                        *)
(* with the real transport (using_mock = False), and, with                 *)
(* using_mock = True,                                                      *)
(*   app/services/mock_pubsub.py  MockPubSubService, MockPublisherClient   *)
(* and the history read path:                                              *)
(*   app/api/history.py      the four history handlers                     *)
(*   app/models/history.py   HistoryQueryParams                            *)
(*   app/services/influxdb.py  InfluxDBService                             *)
(*                                                                         *)
(* One CircuitBreaker instance is shared by all callers (the module-level  *)
(* pubsub_service).  Each caller executes the statements of                *)
(* CircuitBreaker.call one at a time; the breaker has no lock, so in Spec  *)
(* the statements of different callers interleave freely.  SeqSpec is the  *)
(* same program with calls made one after another.                         *)
(***************************************************************************)
EXTENDS Integers, Naturals, Sequences, FiniteSets, TLC

\* ---------------------------------------------------------------- bounds
Callers == {1, 2}
MaxCalls == 3          \* breaker calls started in one behaviour
MaxTime == 3           \* clock readings 0..MaxTime
MaxThreshold == 2      \* failure_threshold is drawn from 1..MaxThreshold
RecoveryTimeout == 2   \* recovery_timeout, in clock ticks
MaxPublishes == 4      \* publishes accepted by the mock client in one behaviour
max_messages_per_topic == 2  \* MockPublisherClient.max_messages_per_topic (1000 in
                             \* the source), scaled so that a buffer fills up
MaxRows == 2           \* rows in one table answered by the store

\* ------------------------------------------------------ program constants
MaxAttempts == 3       \* stop_after_attempt(3)
None == -1             \* last_failure_time = None

CLOSED == "CLOSED"
OPEN == "OPEN"
HALF_OPEN == "HALF_OPEN"
CircuitBreakerState == {CLOSED, OPEN, HALF_OPEN}

\* retry_if_exception_type((ServiceUnavailable, DeadlineExceeded, InternalServerError))
TransientErrors == {"ServiceUnavailable", "DeadlineExceeded", "InternalServerError"}

\* What one transport attempt (client.publish + future.result(timeout)) can do:
\* return a message id, raise a google.api_core exception (three retryable
\* kinds and one that is not), or not deliver a result within pubsub_timeout.
AttemptOutcomes == {"ok", "timeout", "PermissionDenied"} \cup TransientErrors

\* settings.sensor_topic_mapping: the three sensor types have a topic name.
TopicMapping == [st \in {"temperature", "humidity", "ndir"} |-> "sensor-" \o st]
\* publish_sensor_data takes any str as sensor_type
SensorTypeInputs == {"temperature", "humidity", "ndir", "pressure"}

\* SensorData as submit_sensor_data hands it to publish_sensor_data
\* (sensor_dict): the fields the transport's consumers read.
Readings == {
    [device_id |-> 1, sensor_type |-> "temperature", value |-> 2, timestamp |-> 1],
    [device_id |-> 2, sensor_type |-> "temperature", value |-> 3, timestamp |-> 2],
    [device_id |-> 1, sensor_type |-> "humidity", value |-> 5, timestamp |-> 2],
    [device_id |-> 3, sensor_type |-> "pressure", value |-> 7, timestamp |-> 1] }
NoReading == [device_id |-> 0, sensor_type |-> "", value |-> 0, timestamp |-> 0]

\* settings.gcp_project_id or "mock-project"
ProjectId == "mock-project"
\* the topics of the mapping: the keys a publish through the service can create
Topics == {TopicMapping[st] : st \in DOMAIN TopicMapping}

VARIABLES
    state, failure_count, last_failure_time,   \* CircuitBreaker fields
    failure_threshold, recovery_timeout,       \* CircuitBreaker constructor arguments
    now,                                       \* time.time()
    pc,         \* per caller: the statement it is about to execute
    attempts,   \* per caller: tenacity's attempt_number, while _publish_message runs
                \* and at the moment it has returned or raised
    tmp,        \* per caller: failure_count as read by `self.failure_count += 1`
    cause,      \* per caller: error raised by the last transport attempt (same lifetime)
    err,        \* per caller: exception propagating out of publish_sensor_data
    status,     \* per caller: HTTP status of the last response (0: none yet)
    probe,      \* per caller: failure_count found by the current call when it moved
                \* the breaker OPEN -> HALF_OPEN (None: the call did not do that)
    nOk, nFail, nRej,  \* history: breaker calls that returned / raised the operation's error / were rejected
    streak,     \* history: failing breaker calls completed since the last successful one
    using_mock,          \* PubSubService.using_mock
    published_messages,  \* MockPublisherClient.published_messages: topic name -> list
    message_counter,     \* MockPublisherClient.message_counter
    reading,    \* per caller: the reading whose mock publish has returned and is
                \* not answered yet (NoReading otherwise)
    sent,       \* history: per topic, the messages published since its last clear
    returned_ids,  \* history: the message ids returned by publish, in order
    normalized, \* per caller: _transform_data_for_avro_schema has been applied to
                \* the reading of the publish in progress
    h_op,       \* history handler that answered last ("none": no request yet)
    h_params,   \* its parameters
    h_store,    \* what the store answered to the queries it issued
    h_calls,    \* number of store queries it issued
    h_status,   \* HTTP status of its response
    h_data,     \* body of its response: the list of result items
    h_query     \* the base pipeline _build_base_query built for it (<<>>: none)

breakerVars == <<state, failure_count, last_failure_time>>
cfgVars == <<failure_threshold, recovery_timeout>>
callVars == <<pc, attempts, tmp, cause, err, status, probe>>
histVars == <<nOk, nFail, nRej, streak>>
mockVars == <<using_mock, published_messages, message_counter, reading, sent, returned_ids, normalized>>
queryVars == <<h_op, h_params, h_store, h_calls, h_status, h_data, h_query>>
vars == <<state, failure_count, last_failure_time, failure_threshold, recovery_timeout,
          now, pc, attempts, tmp, cause, err, status, probe, nOk, nFail, nRej, streak,
          using_mock, published_messages, message_counter, reading, sent, returned_ids, normalized,
          h_op, h_params, h_store, h_calls, h_status, h_data, h_query>>

\* ------------------------------------------------------------ pure helpers

\* PubSubService.get_topic_path: `if not topic_name: raise ValueError`
HasTopic(st) == st \in DOMAIN TopicMapping /\ TopicMapping[st] # ""

\* (variant: the reset is never attempted)
ShouldAttemptReset_Never(last, t, timeout) == FALSE

\* (variant: compares the clock, not the elapsed time, with the timeout)
ShouldAttemptReset_NoElapsed(lft, t, timeout) == lft # None /\ t >= timeout

\* CircuitBreaker._should_attempt_reset
ShouldAttemptReset(lft, t, timeout) == lft # None /\ t - lft >= timeout

\* (variant: `>` for `>=`)
ReachedThreshold_Strict(fc, thr) == fc > thr

\* CircuitBreaker._on_failure: `if self.failure_count >= self.failure_threshold`
ReachedThreshold(fc, thr) == fc >= thr

\* (variant: `=+ 1` for `+= 1`)
IncrementedCount_Assign(read) == 1

\* CircuitBreaker._on_failure: `self.failure_count += 1`, the value stored
IncrementedCount(read) == read + 1

\* (variant: the time of the first failure is kept)
FailureTime_FirstOnly(lft, t) == IF lft = None THEN t ELSE lft

\* CircuitBreaker._on_failure: `self.last_failure_time = time.time()`, the value stored
FailureTime(lft, t) == t

\* future.result(timeout=settings.pubsub_timeout): the exception an attempt
\* raises.  A result that does not arrive in time raises
\* concurrent.futures.TimeoutError, which is not a google.api_core exception.
AttemptError(outcome) == IF outcome = "timeout" THEN "TimeoutError" ELSE outcome

\* (variant: retry_if_exception_type(Exception))
IsRetryable_Any(e) == TRUE

\* tenacity: retry=retry_if_exception_type(...)
IsRetryable(e) == e \in TransientErrors

\* (variant: stops one attempt late)
StopAfterAttempt_Late(n) == n > MaxAttempts

\* tenacity: stop=stop_after_attempt(3)
StopAfterAttempt(n) == n >= MaxAttempts

\* (variant: reraise=True)
ExhaustedError_Reraise(last) == last

\* tenacity: what is raised once stop is reached (reraise is left at its
\* default False): RetryError wrapping the last attempt.
ExhaustedError(last) == "RetryError"

\* tenacity's decision after attempt number n ended with `outcome`
RetryAction(n, outcome) ==
    IF outcome = "ok" THEN "return"
    ELSE IF ~IsRetryable(AttemptError(outcome)) THEN "reraise"
    ELSE IF StopAfterAttempt(n) THEN "retry_error"
    ELSE "retry"

\* ------------------------------------------------ mock transport helpers

\* dict.get(key) of the topic mapping: None (falsy, as "") when there is no key
TopicOf(st) == IF st \in DOMAIN TopicMapping THEN TopicMapping[st] ELSE ""

\* (variant: the mapping is not checked)
MockHasTopic_Any(st) == TRUE

\* MockPubSubService.get_topic_path: `if not topic_name: raise ValueError`
MockHasTopic(st) == TopicOf(st) # ""

\* mock_pubsub.topic_path: f"projects/{project_id}/topics/{topic_name}",
\* as its '/'-separated parts
TopicPath(project_id, topic_name) == <<"projects", project_id, "topics", topic_name>>

\* (variant: the first part of the path)
TopicName_First(path) == path[1]

\* MockPublisherClient.publish: `topic_path.split('/')[-1]`
TopicName(path) == path[Len(path)]

\* json text of the numbers the readings use
NumText == <<"0", "1", "2", "3", "4", "5", "6", "7", "8", "9">>
JsonNumber(n) == NumText[n + 1]
ParseNumber(text) == CHOOSE n \in 0..9 : NumText[n + 1] = text

\* datetime.isoformat() and str(datetime) of the day t
IsoFormat(t) == NumText[t + 1] \o "T00:00:00"
DateStr(t) == NumText[t + 1] \o " 00:00:00"

\* (variant: the datetime is left in the dict)
HandlerTimestamp_Raw(t) == <<"datetime", DateStr(t)>>

\* submit_sensor_data: `sensor_dict['timestamp'] = sensor_data.timestamp.isoformat()`.
\* A timestamp in a dict is its python type and its text.
HandlerTimestamp(t) == <<"str", IsoFormat(t)>>

\* submit_sensor_data: sensor_dict.  Validation has made device_id an int and
\* value a float; sensor_type is replaced by its string.
SensorDict(r) ==
    [device_id |-> r.device_id, sensor_type |-> r.sensor_type, value |-> r.value,
     timestamp |-> HandlerTimestamp(r.timestamp)]

\* _transform_data_for_avro_schema: a str timestamp is kept, any other is
\* replaced by utcnow().isoformat() + "Z"; int(device_id) and float(value)
\* of an int and a float are the numbers themselves
TransformForAvroSchema(d, utcnow) ==
    [device_id |-> d.device_id, sensor_type |-> d.sensor_type, value |-> d.value,
     timestamp |-> IF d.timestamp[1] = "str" THEN d.timestamp
                   ELSE <<"str", IsoFormat(utcnow) \o "Z">>]

\* json.dumps(data, default=str): the members of the object, each a key, the
\* kind of its json token and the token's text; a str is written as it is,
\* a datetime as str() of it
JsonDumps(d) ==
    << <<"device_id", "number", JsonNumber(d.device_id)>>,
       <<"sensor_type", "string", d.sensor_type>>,
       <<"value", "number", JsonNumber(d.value)>>,
       <<"timestamp", "string", d.timestamp[2]>> >>

\* json.loads: the dict of the members
JsonLoads(text) ==
    [k \in {text[i][1] : i \in DOMAIN text} |->
        LET m == text[CHOOSE i \in DOMAIN text : text[i][1] = k]
        IN  IF m[2] = "number" THEN ParseNumber(m[3]) ELSE m[3]]

\* MockPubSubMessage.to_dict (the text stored by publish_sensor_data is json,
\* so the raw_data branch is not taken)
ToDict(m) == [message_id |-> m.message_id, topic |-> m.topic, data |-> JsonLoads(m.data)]

\* defaultdict(list): a key that is not there reads as the empty list ...
Get(d, k) == IF k \in DOMAIN d THEN d[k] ELSE <<>>
\* ... and is created by the access
Put(d, k, v) == [x \in DOMAIN d \cup {k} |-> IF x = k THEN v ELSE d[x]]
EmptyDict == [x \in {} |-> <<>>]

\* MockPublisherClient.get_published_messages(topic_name)
GetPublishedMessages(d, topic_name) ==
    LET messages == Get(d, topic_name)
    IN  [i \in DOMAIN messages |-> ToDict(messages[i])]

\* (variant: the counter is left as it is)
NextCounter_Stuck(n) == n

\* MockPublisherClient.publish: `self.message_counter += 1`
NextCounter(n) == n + 1

\* MockPublisherClient.publish: f"mock-msg-{int(time.time())}-{self.message_counter}".
\* The seconds are left out of the model's id: two ids of the program are equal
\* only if their counters are, so ids that differ here differ there.
MessageId(n) == <<"mock-msg", n>>

\* (variant: `>` for `>=`)
IsFull_Late(buf) == Len(buf) > max_messages_per_topic

\* MockPublisherClient.publish: `len(...) >= self.max_messages_per_topic`
IsFull(buf) == Len(buf) >= max_messages_per_topic

\* (variant: pop() for pop(0))
Evicted_Newest(buf) == IF IsFull(buf) THEN SubSeq(buf, 1, Len(buf) - 1) ELSE buf

\* MockPublisherClient.publish: `self.published_messages[topic_name].pop(0)`
\* when the list is full
Evicted(buf) == IF IsFull(buf) THEN Tail(buf) ELSE buf

\* MockPublisherClient.publish: the list of the topic after the append
Stored(buf, m) == Append(Evicted(buf), m)

\* ------------------------------------------------ submit_sensor_data

\* submit_sensor_data: the inner `except Exception` turns any publish error
\* into HTTPException(503) ...
InnerExcept(e) == "HTTPException503"
\* ... which is raised inside the outer `try`, whose handlers are
\* `except ValidationError` (422) and `except Exception` (500).
\* HTTPException is an Exception and not a pydantic ValidationError.
OuterExcept(e) == IF e = "ValidationError" THEN 422 ELSE 500

\* (variant: the publish error is swallowed)
ResponseStatus_Swallow(e) == 201

\* submit_sensor_data: 201 with SensorDataResponse when publish_sensor_data
\* returned, else what the handlers make of the exception
ResponseStatus(e) == IF e = "none" THEN 201 ELSE OuterExcept(InnerExcept(e))

\* -------------------------------------------------------------- the state

InCall(c) == pc[c] \notin {"idle", "pub_returned", "pub_raised"}
Started == nOk + nFail + nRej + Cardinality({c \in Callers : InCall(c)})

\* MockPublisherClient.__init__, and no mock publish answered yet
MockIdle ==
    /\ published_messages = EmptyDict
    /\ message_counter = 0
    /\ reading = [c \in Callers |-> NoReading]
    /\ sent = EmptyDict
    /\ returned_ids = <<>>
    /\ normalized = [c \in Callers |-> FALSE]

\* no history request answered yet
QueryIdle ==
    /\ h_op = "none"
    /\ h_params = <<>>
    /\ h_store = <<>>
    /\ h_calls = 0
    /\ h_status = 0
    /\ h_data = <<>>
    /\ h_query = <<>>

\* PubSubService.__init__ with the real transport: a CircuitBreaker built
\* from the settings
Init ==
    /\ using_mock = FALSE
    /\ MockIdle
    /\ QueryIdle
    /\ state = CLOSED
    /\ failure_count = 0
    /\ last_failure_time = None
    /\ failure_threshold \in 1..MaxThreshold
    /\ recovery_timeout = RecoveryTimeout
    /\ now = 0
    /\ pc = [c \in Callers |-> "idle"]
    /\ attempts = [c \in Callers |-> 0]
    /\ tmp = [c \in Callers |-> 0]
    /\ cause = [c \in Callers |-> "none"]
    /\ err = [c \in Callers |-> "none"]
    /\ status = [c \in Callers |-> 0]
    /\ probe = [c \in Callers |-> None]
    /\ nOk = 0 /\ nFail = 0 /\ nRej = 0
    /\ streak = 0

\* time.time() advances
Tick ==
    /\ now < MaxTime
    /\ now' = now + 1
    /\ UNCHANGED <<mockVars, queryVars, breakerVars, cfgVars, callVars, histVars>>

\* submit_sensor_data up to publish_sensor_data's call of circuit_breaker.call:
\* the topic is resolved first; an unmapped sensor type raises ValueError
\* before the breaker is touched; then the reading is transformed to the wire
\* schema and serialised.
\* With the mock transport publish_sensor_data hands over to
\* MockPubSubService.publish_sensor_data at once: topic resolution (ValueError
\* when unmapped), json.dumps, MockCircuitBreaker.call (which only calls),
\* MockPublisherClient.publish and MockFuture.result, which returns the id.
Submit(c) ==
    /\ pc[c] = "idle"
    /\ \E r \in Readings :
         LET st == r.sensor_type IN
         IF using_mock
         THEN IF MockHasTopic(st)
              THEN LET topic_name == TopicName(TopicPath(ProjectId, TopicOf(st)))
                       n == NextCounter(message_counter)
                       message == [message_id |-> MessageId(n),
                                   topic |-> topic_name,
                                   data |-> JsonDumps(SensorDict(r))]
                   IN  /\ message_counter < MaxPublishes
                       /\ message_counter' = n
                       /\ published_messages' = Put(published_messages, topic_name,
                              Stored(Get(published_messages, topic_name), message))
                       /\ sent' = Put(sent, topic_name, Append(Get(sent, topic_name), message))
                       /\ returned_ids' = Append(returned_ids, message.message_id)
                       /\ reading' = [reading EXCEPT ![c] = r]
                       /\ pc' = [pc EXCEPT ![c] = "pub_returned"]
                       /\ err' = [err EXCEPT ![c] = "none"]
                       /\ UNCHANGED normalized
              ELSE /\ pc' = [pc EXCEPT ![c] = "pub_raised"]
                   /\ err' = [err EXCEPT ![c] = "ValueError"]
                   /\ reading' = [reading EXCEPT ![c] = r]
                   /\ UNCHANGED <<published_messages, message_counter, sent, returned_ids, normalized>>
         ELSE IF HasTopic(st)
              THEN /\ Started < MaxCalls
                   /\ normalized' = [normalized EXCEPT ![c] = TRUE]
                   /\ pc' = [pc EXCEPT ![c] = "cb_gate"]
                   /\ err' = [err EXCEPT ![c] = "none"]
                   /\ UNCHANGED <<published_messages, message_counter, sent, returned_ids, reading>>
              ELSE /\ pc' = [pc EXCEPT ![c] = "pub_raised"]
                   /\ err' = [err EXCEPT ![c] = "ValueError"]
                   /\ reading' = [reading EXCEPT ![c] = r]
                   /\ UNCHANGED <<published_messages, message_counter, sent, returned_ids, normalized>>
    /\ status' = [status EXCEPT ![c] = 0]
    /\ UNCHANGED <<using_mock, queryVars, breakerVars, cfgVars, now, attempts, tmp, cause, probe, histVars>>

\* CircuitBreaker.call: `if self.state == CircuitBreakerState.OPEN:`
CallGate(c) ==
    /\ pc[c] = "cb_gate"
    /\ pc' = [pc EXCEPT ![c] = IF state = OPEN THEN "cb_reset_check" ELSE "invoke"]
    /\ UNCHANGED <<mockVars, queryVars, breakerVars, cfgVars, now, attempts, tmp, cause, err, status, probe, histVars>>

\* CircuitBreaker.call: `if self._should_attempt_reset(): ... else: raise Exception(...)`
CallCheckReset(c) ==
    /\ pc[c] = "cb_reset_check"
    /\ IF ShouldAttemptReset(last_failure_time, now, recovery_timeout)
       THEN /\ pc' = [pc EXCEPT ![c] = "cb_set_half"]
            /\ UNCHANGED <<mockVars, queryVars, err, nRej>>
       ELSE /\ pc' = [pc EXCEPT ![c] = "pub_raised"]
            /\ err' = [err EXCEPT ![c] = "CircuitOpen"]
            /\ nRej' = nRej + 1
    /\ UNCHANGED <<mockVars, queryVars, breakerVars, cfgVars, now, attempts, tmp, cause, status, probe, nOk, nFail, streak>>

\* CircuitBreaker.call: `self.state = CircuitBreakerState.HALF_OPEN`
CallSetHalfOpen(c) ==
    /\ pc[c] = "cb_set_half"
    /\ state' = HALF_OPEN
    /\ probe' = [probe EXCEPT ![c] = failure_count]
    /\ pc' = [pc EXCEPT ![c] = "invoke"]
    /\ UNCHANGED <<mockVars, queryVars, failure_count, last_failure_time, cfgVars, now,
                   attempts, tmp, cause, err, status, histVars>>

\* One iteration of the tenacity loop around PubSubService._publish_message:
\* one client.publish + future.result, then tenacity's decision.
Attempt(c) ==
    /\ pc[c] = "invoke"
    /\ \E outcome \in AttemptOutcomes :
         LET n == attempts[c] + 1
             act == RetryAction(n, outcome)
         IN  /\ attempts' = [attempts EXCEPT ![c] = n]
             /\ cause' = [cause EXCEPT ![c] =
                    IF outcome = "ok" THEN "none" ELSE AttemptError(outcome)]
             /\ err' = [err EXCEPT ![c] =
                    CASE act = "reraise" -> AttemptError(outcome)
                      [] act = "retry_error" -> ExhaustedError(AttemptError(outcome))
                      [] OTHER -> "none"]
             /\ pc' = [pc EXCEPT ![c] =
                    CASE act = "return" -> "on_success_count"
                      [] act = "retry" -> "invoke"
                      [] OTHER -> "on_failure_read"]
    /\ UNCHANGED <<mockVars, queryVars, breakerVars, cfgVars, now, tmp, status, probe, histVars>>

\* (variant: the count is left as it is)
SuccessCount_Keep(count) == count

\* _on_success: `self.failure_count = 0`
SuccessCount(count) == 0

\* (variant: the state is left as it is)
SuccessState_Keep(st) == st

\* _on_success: `self.state = CircuitBreakerState.CLOSED`
SuccessState(st) == CLOSED

\* CircuitBreaker._on_success: `self.failure_count = 0`
\* (_publish_message has returned: the retry loop's locals are gone)
OnSuccessCount(c) ==
    /\ pc[c] = "on_success_count"
    /\ failure_count' = SuccessCount(failure_count)
    /\ pc' = [pc EXCEPT ![c] = "on_success_state"]
    /\ attempts' = [attempts EXCEPT ![c] = 0]
    /\ cause' = [cause EXCEPT ![c] = "none"]
    /\ UNCHANGED <<mockVars, queryVars, state, last_failure_time, cfgVars, now,
                   tmp, err, status, probe, histVars>>

\* CircuitBreaker._on_success: `self.state = CircuitBreakerState.CLOSED`,
\* then call returns the result and publish_sensor_data returns the id.
OnSuccessState(c) ==
    /\ pc[c] = "on_success_state"
    /\ state' = SuccessState(state)
    /\ pc' = [pc EXCEPT ![c] = "pub_returned"]
    /\ nOk' = nOk + 1
    /\ streak' = 0
    /\ UNCHANGED <<mockVars, queryVars, failure_count, last_failure_time, cfgVars, now,
                   attempts, tmp, cause, err, status, probe, nFail, nRej>>

\* CircuitBreaker._on_failure: `self.failure_count += 1`, the read ...
\* (_publish_message has raised: the retry loop's locals are gone)
OnFailureRead(c) ==
    /\ pc[c] = "on_failure_read"
    /\ tmp' = [tmp EXCEPT ![c] = failure_count]
    /\ pc' = [pc EXCEPT ![c] = "on_failure_write"]
    /\ attempts' = [attempts EXCEPT ![c] = 0]
    /\ cause' = [cause EXCEPT ![c] = "none"]
    /\ UNCHANGED <<mockVars, queryVars, breakerVars, cfgVars, now, err, status, probe, histVars>>

\* ... and the write
OnFailureWrite(c) ==
    /\ pc[c] = "on_failure_write"
    /\ failure_count' = IncrementedCount(tmp[c])
    /\ pc' = [pc EXCEPT ![c] = "on_failure_time"]
    /\ UNCHANGED <<mockVars, queryVars, state, last_failure_time, cfgVars, now,
                   attempts, tmp, cause, err, status, probe, histVars>>

\* CircuitBreaker._on_failure: `self.last_failure_time = time.time()`
OnFailureTime(c) ==
    /\ pc[c] = "on_failure_time"
    /\ last_failure_time' = FailureTime(last_failure_time, now)
    /\ pc' = [pc EXCEPT ![c] = "on_failure_check"]
    /\ UNCHANGED <<mockVars, queryVars, state, failure_count, cfgVars, now,
                   attempts, tmp, cause, err, status, probe, histVars>>

\* CircuitBreaker._on_failure: `if self.failure_count >= self.failure_threshold:
\* self.state = OPEN`, then call re-raises and publish_sensor_data re-raises.
OnFailureCheck(c) ==
    /\ pc[c] = "on_failure_check"
    /\ state' = IF ReachedThreshold(failure_count, failure_threshold) THEN OPEN ELSE state
    /\ pc' = [pc EXCEPT ![c] = "pub_raised"]
    /\ nFail' = nFail + 1
    /\ streak' = streak + 1
    /\ UNCHANGED <<mockVars, queryVars, failure_count, last_failure_time, cfgVars, now,
                   attempts, tmp, cause, err, status, probe, nOk, nRej>>

\* submit_sensor_data after publish_sensor_data returned or raised: the
\* response is sent and the locals of the call are gone.
Respond(c) ==
    /\ pc[c] \in {"pub_returned", "pub_raised"}
    /\ status' = [status EXCEPT ![c] = ResponseStatus(err[c])]
    /\ pc' = [pc EXCEPT ![c] = "idle"]
    /\ attempts' = [attempts EXCEPT ![c] = 0]
    /\ tmp' = [tmp EXCEPT ![c] = 0]
    /\ cause' = [cause EXCEPT ![c] = "none"]
    /\ probe' = [probe EXCEPT ![c] = None]
    /\ reading' = [reading EXCEPT ![c] = NoReading]
    /\ normalized' = [normalized EXCEPT ![c] = FALSE]
    /\ UNCHANGED <<using_mock, published_messages, message_counter, sent, returned_ids,
                   queryVars, breakerVars, cfgVars, now, err, histVars>>

Step(c) ==
    \/ Submit(c)
    \/ CallGate(c)
    \/ CallCheckReset(c)
    \/ CallSetHalfOpen(c)
    \/ Attempt(c)
    \/ OnSuccessCount(c)
    \/ OnSuccessState(c)
    \/ OnFailureRead(c)
    \/ OnFailureWrite(c)
    \/ OnFailureTime(c)
    \/ OnFailureCheck(c)
    \/ Respond(c)

Next ==
    \/ Tick
    \/ \E c \in Callers : Step(c)

Spec == Init /\ [][Next]_vars

\* The same program when requests are handled one after another: a caller
\* takes a step only while every other caller is idle.
Others(c) == Callers \ {c}
SeqNext ==
    \/ Tick
    \/ \E c \in Callers : Step(c) /\ \A d \in Others(c) : pc[d] = "idle"

SeqSpec == Init /\ [][SeqNext]_vars

\* debug endpoint clear_mock_pubsub_messages -> PubSubService.clear_mock_data
\* -> MockPublisherClient.clear_messages(topic_name): one topic's list is
\* emptied (the key is created if needed), or, without a topic, the dict is.
\* Without the mock transport the endpoint answers 404 and nothing changes.
ClearMessages ==
    /\ using_mock
    /\ \A c \in Callers : pc[c] = "idle"
    /\ \E topic_name \in Topics \cup {""} :
         IF topic_name # ""
         THEN /\ published_messages' = Put(published_messages, topic_name, <<>>)
              /\ sent' = Put(sent, topic_name, <<>>)
         ELSE /\ published_messages' = EmptyDict
              /\ sent' = EmptyDict
    /\ UNCHANGED <<using_mock, message_counter, reading, returned_ids, normalized, queryVars,
                   breakerVars, cfgVars, now, callVars, histVars>>

\* The service as deployed, with either transport: requests are handled one
\* after another (every handler is a coroutine that never awaits), which is
\* one caller making request after request.
Client == CHOOSE c \in Callers : TRUE
ServiceIdle ==
    /\ state = CLOSED
    /\ failure_count = 0
    /\ last_failure_time = None
    /\ failure_threshold \in 1..MaxThreshold
    /\ recovery_timeout = RecoveryTimeout
    /\ now = 0
    /\ pc = [c \in Callers |-> "idle"]
    /\ attempts = [c \in Callers |-> 0]
    /\ tmp = [c \in Callers |-> 0]
    /\ cause = [c \in Callers |-> "none"]
    /\ err = [c \in Callers |-> "none"]
    /\ status = [c \in Callers |-> 0]
    /\ probe = [c \in Callers |-> None]
    /\ nOk = 0 /\ nFail = 0 /\ nRej = 0
    /\ streak = 0

PublishInit ==
    /\ using_mock \in BOOLEAN
    /\ MockIdle
    /\ QueryIdle
    /\ ServiceIdle

PublishNext ==
    \/ Tick
    \/ Step(Client)
    \/ ClearMessages

PublishSpec == PublishInit /\ [][PublishNext]_vars

TypeOK ==
    /\ state \in CircuitBreakerState
    /\ failure_count \in 0..(MaxCalls + 1)
    /\ last_failure_time \in {None} \cup (0..MaxTime)
    /\ now \in 0..MaxTime
    /\ \A c \in Callers : attempts[c] \in 0..(MaxAttempts + 1)

\* ===================================================================
\* Properties
\* ===================================================================

\* No caller is inside CircuitBreaker.call
Quiescent == \A c \in Callers : ~InCall(c)

\* The operation's own failure is propagating out of the call
OpFailed(c) == err[c] \notin {"none", "CircuitOpen", "ValueError"}

\* The caller is between the raise of _publish_message and the raise of
\* publish_sensor_data
Raising(c) == pc[c] \in {"on_failure_read", "on_failure_write", "on_failure_time",
                         "on_failure_check", "pub_raised"}

\* C1: from a CLOSED breaker with failure_count = 0, after fewer than
\* failure_threshold consecutive failing calls the breaker is still CLOSED,
\* after exactly failure_threshold of them it is OPEN, and the only
\* CLOSED -> OPEN transition is made by the failure_threshold-th failing call.
\* (streak counts the failing calls since the breaker was last CLOSED with
\* failure_count = 0: since construction or since the last successful call.)
C1_OpensOnNthFailure ==
    /\ [](Quiescent =>
            /\ (streak < failure_threshold => state = CLOSED)
            /\ (streak = failure_threshold => state = OPEN))
    /\ [][(state = CLOSED /\ state' = OPEN) => streak' = failure_threshold]_vars

C1_Witness ==
    /\ Quiescent
    /\ failure_threshold = 2
    /\ streak = failure_threshold
    /\ state = OPEN

\* C2: a call that finds the breaker OPEN with less than recovery_timeout
\* elapsed since last_failure_time raises the circuit-open error, makes no
\* transport attempt and leaves state, failure_count and last_failure_time
\* as they were.
C2_OpenRejects ==
    [][\A c \in Callers :
          ( /\ pc[c] = "cb_reset_check"
            /\ pc'[c] # "cb_reset_check"
            /\ state = OPEN
            /\ last_failure_time # None
            /\ now - last_failure_time < recovery_timeout )
          => ( /\ pc'[c] = "pub_raised"
               /\ err'[c] = "CircuitOpen"
               /\ attempts'[c] = 0
               /\ UNCHANGED breakerVars )]_vars

C2_Witness ==
    \E c \in Callers :
        /\ pc[c] = "pub_raised"
        /\ err[c] = "CircuitOpen"
        /\ attempts[c] = 0
        /\ state = OPEN
        /\ now - last_failure_time < recovery_timeout

\* C3: (calls made one after another) a call that finds the breaker OPEN with
\* at least recovery_timeout elapsed moves it to HALF_OPEN and invokes the
\* operation; if the operation succeeds the call ends with the breaker
\* CLOSED and failure_count = 0; if it fails the call ends with the breaker
\* OPEN, failure_count one more than the call found, and last_failure_time
\* set to the clock reading taken by the failure handler.
C3_HalfOpenProbe ==
    /\ [][\A c \in Callers :
            ( /\ pc[c] = "cb_reset_check" /\ pc'[c] # "cb_reset_check"
              /\ last_failure_time # None
              /\ now - last_failure_time >= recovery_timeout )
            => pc'[c] = "cb_set_half"]_vars
    /\ [][\A c \in Callers :
            (pc[c] = "cb_set_half" /\ pc'[c] # "cb_set_half")
            => (state' = HALF_OPEN /\ pc'[c] = "invoke")]_vars
    /\ [](\A c \in Callers :
            (probe[c] # None /\ pc[c] \in {"on_success_count", "on_failure_read"})
            => attempts[c] >= 1)
    /\ [][\A c \in Callers :
            (probe[c] # None /\ pc[c] = "on_success_state" /\ pc'[c] = "pub_returned")
            => (state' = CLOSED /\ failure_count' = 0)]_vars
    /\ [][\A c \in Callers :
            (probe[c] # None /\ pc[c] = "on_failure_time" /\ pc'[c] = "on_failure_check")
            => last_failure_time' = now]_vars
    /\ [][\A c \in Callers :
            (probe[c] # None /\ pc[c] = "on_failure_check" /\ pc'[c] = "pub_raised")
            => (state' = OPEN /\ failure_count' = probe[c] + 1)]_vars

C3_Witness ==
    \E c \in Callers :
        /\ probe[c] # None
        /\ pc[c] = "pub_raised"
        /\ state = OPEN
        /\ failure_count = probe[c] + 1
        /\ last_failure_time >= RecoveryTimeout

ErrorKept ==
    [][\A c \in Callers : (Raising(c) /\ Raising(c)') => err'[c] = err[c]]_vars

\* C5: a publish whose attempts all raise a transient error keeps retrying
\* while it has made fewer than max_attempts = 3 attempts, fails once it has
\* made 3, and no publish ever makes a fourth attempt.
C5_ExactlyMaxAttempts ==
    \A c \in Callers :
        /\ attempts[c] <= MaxAttempts
        /\ (cause[c] \in TransientErrors /\ attempts[c] < MaxAttempts)
              => (pc[c] = "invoke" /\ err[c] = "none")
        /\ (cause[c] \in TransientErrors /\ attempts[c] = MaxAttempts)
              => (pc[c] = "on_failure_read" /\ OpFailed(c))

C5_Witness ==
    \E c \in Callers :
        /\ pc[c] = "on_failure_read"
        /\ cause[c] \in TransientErrors
        /\ attempts[c] = MaxAttempts
        /\ OpFailed(c)

\* C6: once an attempt has raised an error outside the transient allow-list,
\* the publish makes no further attempt and that error is the one that
\* propagates to the caller, on whichever attempt it happened.
C6_NonTransientPropagates ==
    /\ [](\A c \in Callers :
            (cause[c] \notin (TransientErrors \cup {"none"}))
                => (pc[c] = "on_failure_read" /\ err[c] = cause[c]))
    /\ ErrorKept

C6_Witness ==
    \E c \in Callers :
        /\ pc[c] = "on_failure_read"
        /\ attempts[c] = 2
        /\ cause[c] = "PermissionDenied"
        /\ err[c] = "PermissionDenied"

\* C7 as stated: after max_attempts transient failures the error leaving the
\* retry layer is the last attempt's error.
C7_Original ==
    \A c \in Callers :
        (attempts[c] = MaxAttempts /\ cause[c] \in TransientErrors) => err[c] = cause[c]

\* C7 as amended: after max_attempts transient failures the error leaving
\* the retry layer, and reaching the caller of publish_sensor_data, is
\* tenacity's RetryError (which wraps the last attempt), not the last
\* attempt's own error kind.
C7_RetryErrorPropagates ==
    /\ [](\A c \in Callers :
            (attempts[c] = MaxAttempts /\ cause[c] \in TransientErrors)
                => err[c] = "RetryError")
    /\ ErrorKept

C7_Witness ==
    \E c \in Callers :
        /\ pc[c] = "on_failure_read"
        /\ attempts[c] = MaxAttempts
        /\ cause[c] = "DeadlineExceeded"
        /\ err[c] = "RetryError"

\* C8: an attempt whose result does not arrive within pubsub_timeout is
\* retried while attempts remain, like a deadline-exceeded error.
C8_TimeoutRetried ==
    \A c \in Callers :
        (cause[c] = AttemptError("timeout") /\ attempts[c] < MaxAttempts)
            => (pc[c] = "invoke" /\ err[c] = "none")

\* The breaker as one atomic step per call outcome, from (st, fc)
SeqOk(s) == [st |-> CLOSED, fc |-> 0]
SeqFail(s, thr) ==
    [st |-> IF s.fc + 1 >= thr THEN OPEN
            ELSE IF s.st = OPEN THEN HALF_OPEN ELSE s.st,
     fc |-> s.fc + 1]

\* Breaker states some sequential order of o successful, f failing and r
\* rejected calls ends in (a call is rejected only by an OPEN breaker)
RECURSIVE SeqResults(_, _, _, _, _)
SeqResults(s, o, f, r, thr) ==
    IF o + f + r = 0 THEN {s}
    ELSE (IF o > 0 THEN SeqResults(SeqOk(s), o - 1, f, r, thr) ELSE {})
         \cup (IF f > 0 THEN SeqResults(SeqFail(s, thr), o, f - 1, r, thr) ELSE {})
         \cup (IF r > 0 /\ s.st = OPEN THEN SeqResults(s, o, f, r - 1, thr) ELSE {})

\* C9: whenever no call is in progress, state and failure_count are those
\* that some sequential order of the completed calls' outcomes produces.
C9_AtomicOutcomes ==
    Quiescent =>
        [st |-> state, fc |-> failure_count]
            \in SeqResults([st |-> CLOSED, fc |-> 0], nOk, nFail, nRej, failure_threshold)

\* C10: a publish rejected by the OPEN breaker, or failed after the retries
\* were exhausted, is answered with HTTP 503.
C10_Unavailable503 ==
    \A c \in Callers :
        (status[c] # 0 /\ err[c] \in {"CircuitOpen", "RetryError"}) => status[c] = 503

\* ===================================================================
\* The history read path
\* ===================================================================

\* A column a record of the store does not have
Absent == "<absent>"
\* models/sensor.py SensorType
SensorTypes == {"temperature", "humidity", "ndir"}
\* SensorType(token) does not raise ValueError
IsSensorType(token) == token \in SensorTypes
\* int(text) / float(text) does not raise ValueError
IsNumeric(text) == \E n \in 0..9 : NumText[n + 1] = text
\* record.values.get(column, default)
ValueOr(v, default) == IF v = Absent THEN default ELSE v

\* record.get_time() of a record without a `_time` column
NoTime == 0
\* FluxRecord.values of one row: tag and pivoted columns, `stat` as set by
\* the query, `_field` and `_value`; `_time` and the index of the row's
\* table are set by At
Row(st, dev, stat, field, value, lat, lon) ==
    [sensor_type |-> st, device_id |-> dev, stat |-> stat, field |-> field,
     value |-> value, latitude |-> lat, longitude |-> lon,
     time |-> NoTime, table |-> 0]
\* the row as a record of table `table` with `_time` = time
At(row, table, time) == [row EXCEPT !.table = table, !.time = time]

\* all sequences over S of length at most n
SeqsUpTo(S, n) == UNION {[1..k -> S] : k \in 0..n}

\* query_api.query: it raises, or it returns tables (their records in order)
Failed == [ok |-> FALSE, rows |-> <<>>]
Answered(rows) == [ok |-> TRUE, rows |-> rows]
Answers(S) == {Failed} \cup {Answered(rows) : rows \in SeqsUpTo(S, MaxRows)}

\* ----- HistoryQueryParams
TimeInputs == 0..1
CoordInputs == {None, 0, 1}
\* sensor_type: Optional[SensorType], "" for None
NoSensorType == ""
SensorTypeFilters == {NoSensorType, "temperature"}
\* device_id: Optional[int] = Field(None, gt=0)
DeviceIdFilters == {None, 1}
HistoryParams ==
    [start_time : TimeInputs, end_time : TimeInputs,
     sensor_type : SensorTypeFilters, device_id : DeviceIdFilters,
     latitude_min : CoordInputs, latitude_max : CoordInputs,
     longitude_min : CoordInputs, longitude_max : CoordInputs]

\* (variant: `<` for `<=`)
ValidTimeRange_Strict(p) == ~(p.end_time < p.start_time)

\* validate_time_range: `v <= info.data['start_time']` raises
ValidTimeRange(p) == ~(p.end_time <= p.start_time)
\* validate_latitude_range
ValidLatitudeRange(p) ==
    ~(p.latitude_max # None /\ p.latitude_min # None /\ p.latitude_max <= p.latitude_min)
\* validate_longitude_range
ValidLongitudeRange(p) ==
    ~(p.longitude_max # None /\ p.longitude_min # None /\ p.longitude_max <= p.longitude_min)
\* HistoryQueryParams(...) does not raise ValidationError
ParamsValid(p) == ValidTimeRange(p) /\ ValidLatitudeRange(p) /\ ValidLongitudeRange(p)

\* get_historical_data / get_aggregated_data: `except ValueError` (pydantic's
\* ValidationError is a ValueError) -> 422, `except Exception` -> 500
HistoryStatus(e) == IF e \in {"ValidationError", "ValueError"} THEN 422 ELSE 500
\* get_all_devices / get_sensor_stats: `except Exception` -> 500
PlainStatus(e) == 500

\* ----- _build_base_query
\* the pipeline is the list of its clauses, each the column it is about, its
\* operator and its operand as the f-string formats it
Bucket == "sensor_data_bucket"
Clause(column, op, operand) == <<column, op, operand>>
\* `{x}` of a number
Formatted(x) == NumText[x + 1]

\* (variant: `if params.latitude_min:` and the like)
IsSupplied_Truthy(x) == x # None /\ x # 0

\* `is not None`
IsSupplied(x) == x # None
\* the clause when the test passes, nothing otherwise
Part(test, clause) == IF test THEN <<clause>> ELSE <<>>
BuildBaseQuery(p) ==
    <<Clause("bucket", "from", Bucket),
      Clause("_time", "range", IsoFormat(p.start_time) \o "Z.." \o IsoFormat(p.end_time) \o "Z"),
      Clause("_measurement", "==", "sensor_data")>>
    \* `if params.sensor_type:`
    \o Part(p.sensor_type # NoSensorType, Clause("sensor_type", "==", p.sensor_type))
    \* `if params.device_id:`
    \o Part(p.device_id # None /\ p.device_id # 0,
            Clause("device_id", "==", IF p.device_id = None THEN "" ELSE Formatted(p.device_id)))
    \o Part(IsSupplied(p.latitude_min),
            Clause("latitude", ">=", IF p.latitude_min = None THEN "" ELSE Formatted(p.latitude_min)))
    \o Part(IsSupplied(p.latitude_max),
            Clause("latitude", "<=", IF p.latitude_max = None THEN "" ELSE Formatted(p.latitude_max)))
    \o Part(IsSupplied(p.longitude_min),
            Clause("longitude", ">=", IF p.longitude_min = None THEN "" ELSE Formatted(p.longitude_min)))
    \o Part(IsSupplied(p.longitude_max),
            Clause("longitude", "<=", IF p.longitude_max = None THEN "" ELSE Formatted(p.longitude_max)))

\* ----- query_historical_data
RawValues == {
    Row("temperature", "1", Absent, Absent, "5", "2", "3"),
    Row("temperature", "x", Absent, Absent, "5", "2", "3"),
    Row("bogus", "1", Absent, Absent, "5", "2", "3"),
    Row("humidity", "2", Absent, Absent, "abc", Absent, Absent) }
\* the result holds one table for each series; the sampled results hold
\* the tables 0 and 1, with records at the times 1 and 2
RawRows == {At(row, table, time) : row \in RawValues, table \in 0..1, time \in 1..2}
\* the tables follow each other, and `sort(columns: ["_time"])` has sorted
\* the records of each table
TablesSorted(rows) ==
    \A i, j \in DOMAIN rows :
        i < j => /\ rows[i].table <= rows[j].table
                 /\ rows[i].table = rows[j].table => rows[i].time <= rows[j].time
RawAnswers ==
    {Failed} \cup {Answered(rows) : rows \in {t \in SeqsUpTo(RawRows, MaxRows) : TablesSorted(t)}}

\* the row's HistoricalDataPoint is built without ValueError
RawRowOk(row) ==
    /\ IsNumeric(ValueOr(row.device_id, "0"))
    /\ IsSensorType(ValueOr(row.sensor_type, "temperature"))
    /\ IsNumeric(ValueOr(row.value, "0"))
    /\ IsNumeric(ValueOr(row.latitude, "0"))
    /\ IsNumeric(ValueOr(row.longitude, "0"))
RawPoint(row) ==
    [device_id |-> ParseNumber(ValueOr(row.device_id, "0")),
     sensor_type |-> ValueOr(row.sensor_type, "temperature"),
     value |-> ParseNumber(ValueOr(row.value, "0")),
     latitude |-> ParseNumber(ValueOr(row.latitude, "0")),
     longitude |-> ParseNumber(ValueOr(row.longitude, "0")),
     timestamp |-> row.time]
\* the loop over the records: a row whose point raises is skipped
HistoricalPoints(rows) ==
    LET good == SelectSeq(rows, RawRowOk)
    IN  [i \in DOMAIN good |-> RawPoint(good[i])]

\* ----- query_aggregated_data
AggRows == {
    Row("temperature", "1", Absent, "value", "5", Absent, Absent),
    Row("bogus", "1", Absent, "value", "5", Absent, Absent),
    Row("humidity", "2", Absent, "value", "abc", Absent, Absent) }
CountRows == {
    Row("temperature", "1", Absent, "value", "3", Absent, Absent),
    Row("ndir", "3", Absent, "value", "4", Absent, Absent),
    Row("humidity", "2", Absent, "value", "abc", Absent, Absent) }

Key(row) == <<row.sensor_type, row.device_id>>
\* `int(record.get_value() or 0)` of every count row does not raise
CountRowsOk(rows) == \A i \in DOMAIN rows : IsNumeric(ValueOr(rows[i].value, "0"))
\* count_map: the last row of a key wins
CountMap(rows) ==
    [k \in {Key(rows[i]) : i \in DOMAIN rows} |->
        LET last == CHOOSE i \in DOMAIN rows :
                        /\ Key(rows[i]) = k
                        /\ \A j \in DOMAIN rows : Key(rows[j]) = k => j <= i
        IN  ParseNumber(ValueOr(rows[last].value, "0"))]
\* the row's AggregatedDataPoint is built without ValueError
\* (`int(device_id) if device_id else None`, `float(record.get_value() or 0.0)`)
AggRowOk(row) ==
    /\ IsSensorType(row.sensor_type)
    /\ row.device_id = Absent \/ IsNumeric(row.device_id)
    /\ IsNumeric(ValueOr(row.value, "0"))
\* (variant: the count of any row of the count result)
CountOf_AnyKey(key, count_map) ==
    IF DOMAIN count_map # {} THEN count_map[CHOOSE k \in DOMAIN count_map : TRUE] ELSE 0

\* `count_map.get(key, 0)`
CountOf(key, count_map) == IF key \in DOMAIN count_map THEN count_map[key] ELSE 0
AggPoint(row, count_map) ==
    [sensor_type |-> row.sensor_type,
     device_id |-> IF row.device_id = Absent THEN None ELSE ParseNumber(row.device_id),
     value |-> ParseNumber(ValueOr(row.value, "0")),
     count |-> CountOf(Key(row), count_map)]
AggregatedPoints(rows, count_rows) ==
    LET good == SelectSeq(rows, AggRowOk)
    IN  [i \in DOMAIN good |-> AggPoint(good[i], CountMap(count_rows))]

\* ----- get_device_list, _get_device_info
IdRows == {
    Row(Absent, "1", Absent, Absent, Absent, Absent, Absent),
    Row(Absent, "2", Absent, Absent, Absent, Absent, Absent),
    Row(Absent, "x", Absent, Absent, Absent, Absent, Absent) }

\* `if device_id:`
Truthy(text) == text # Absent /\ text # ""
\* `device_ids.append(int(device_id))` of every row with a device_id does not raise
DeviceIdsOk(rows) == \A i \in DOMAIN rows : Truthy(rows[i].device_id) => IsNumeric(rows[i].device_id)
DeviceIds(rows) ==
    LET with_id == SelectSeq(rows, LAMBDA row : Truthy(row.device_id))
    IN  [i \in DOMAIN with_id |-> ParseNumber(with_id[i].device_id)]

\* tables the detail query of one device may return
TypeRow(st) == Row(st, "1", Absent, Absent, Absent, Absent, Absent)
FirstRow == At(Row(Absent, "1", "first", "value", "5", Absent, Absent), 1, 1)
LastRow == At(Row(Absent, "1", "last", "value", "6", Absent, Absent), 2, 2)
LocationRow(lat) == Row(Absent, "1", Absent, Absent, Absent, lat, "3")
DetailTables == {
    <<>>,
    <<TypeRow("temperature"), FirstRow, LastRow>>,
    <<TypeRow("temperature"), FirstRow>>,
    <<TypeRow("bogus"), FirstRow, LastRow>>,
    <<TypeRow("temperature"), FirstRow, LastRow, LocationRow("2")>>,
    <<TypeRow("temperature"), FirstRow, LastRow, LocationRow("abc")>> }
DetailAnswers == {Failed} \cup {Answered(t) : t \in DetailTables}

\* the branches of the loop over the records, in the order of the if/elif chain
HasType(row) == row.sensor_type # Absent
IsFirst(row) == ~HasType(row) /\ row.stat = "first"
IsLast(row) == ~HasType(row) /\ row.stat = "last"
\* `"count" in str(table_name)`: table_name is records[0].table, the index of
\* the table, whose text has no letters
TableNameHasCount == FALSE
IsCount(row) ==
    /\ ~HasType(row) /\ row.stat \notin {"first", "last"}
    /\ row.field = "value" /\ TableNameHasCount
IsLocation(row) ==
    /\ ~HasType(row) /\ row.stat \notin {"first", "last"} /\ ~IsCount(row)
    /\ row.latitude # Absent /\ row.longitude # Absent
\* a conversion outside the inner try raises
DetailRaises(rows) ==
    \E i \in DOMAIN rows :
        \/ IsCount(rows[i]) /\ ~IsNumeric(ValueOr(rows[i].value, "0"))
        \/ IsLocation(rows[i]) /\ ~(IsNumeric(rows[i].latitude) /\ IsNumeric(rows[i].longitude))
RECURSIVE TotalMeasurements(_)
TotalMeasurements(rows) ==
    IF rows = <<>> THEN 0
    ELSE (IF IsCount(Head(rows)) THEN ParseNumber(ValueOr(Head(rows).value, "0")) ELSE 0)
         + TotalMeasurements(Tail(rows))

\* _get_device_info returns None
NoInfo ==
    [device_id |-> 0, sensor_types |-> {}, total_measurements |-> 0,
     first_seen |-> NoTime, last_seen |-> NoTime]
\* record.get_time() of the last record the branch `stat` took, None without one
SeenAt(rows, stat) ==
    LET hits == SelectSeq(rows, LAMBDA row : ~HasType(row) /\ row.stat = stat)
    IN  IF hits = <<>> THEN NoTime ELSE hits[Len(hits)].time

\* (variant: last_seen is not looked at)
FacetsComplete_NoLast(sensor_types, first_seen, last_seen) ==
    sensor_types # {} /\ first_seen # NoTime

\* `if not sensor_types or not first_seen or not last_seen: return None`
FacetsComplete(sensor_types, first_seen, last_seen) ==
    sensor_types # {} /\ first_seen # NoTime /\ last_seen # NoTime
\* _get_device_info: any exception, and a device without sensor types,
\* first_seen or last_seen, gives None
DeviceInfoOf(device_id, answer) ==
    LET rows == answer.rows
        sensor_types == {rows[i].sensor_type : i \in
                            {j \in DOMAIN rows : HasType(rows[j]) /\ IsSensorType(rows[j].sensor_type)}}
        first_seen == SeenAt(rows, "first")
        last_seen == SeenAt(rows, "last")
    IN  IF \/ ~answer.ok
           \/ DetailRaises(rows)
           \/ ~FacetsComplete(sensor_types, first_seen, last_seen)
        THEN NoInfo
        ELSE [device_id |-> device_id, sensor_types |-> sensor_types,
              total_measurements |-> TotalMeasurements(rows),
              first_seen |-> first_seen, last_seen |-> last_seen]
\* get_device_list: `if device_info: devices.append(device_info)`
DeviceList(device_ids, answers) ==
    LET infos == [i \in DOMAIN device_ids |-> DeviceInfoOf(device_ids[i], answers[i])]
    IN  SelectSeq(infos, LAMBDA info : info # NoInfo)

\* ----- get_sensor_type_stats
StatRow(st, stat, value) == Row(st, Absent, stat, "value", value, Absent, Absent)
StatsBase == <<StatRow("temperature", "first", "5"), StatRow("temperature", "last", "6")>>
StatsTables == {
    <<>>,
    StatsBase,
    <<StatRow("temperature", "first", "5")>>,
    StatsBase \o <<StatRow("temperature", "device_count", "2")>>,
    StatsBase \o <<StatRow("temperature", "device_count", "abc")>>,
    StatsBase \o <<StatRow("temperature", "mean", "abc")>>,
    StatsBase \o <<StatRow("bogus", "first", "5")>>,
    StatsBase \o <<StatRow("humidity", "measurement_count", "4")>> }
StatsAnswers == {Failed} \cup {Answered(t) : t \in StatsTables}

\* the row is used: it has a sensor type that SensorType() accepts
StatRowUsed(row) == Truthy(row.sensor_type) /\ IsSensorType(row.sensor_type)
\* `int(value or 0)` / `float(value or 0.0)` of a used row raises
StatsRaises(rows) ==
    \E i \in DOMAIN rows :
        /\ StatRowUsed(rows[i])
        /\ rows[i].stat \in {"device_count", "measurement_count", "min", "max", "mean"}
        /\ ~IsNumeric(ValueOr(rows[i].value, "0"))
\* the value of the last used row of a sensor type and stat, 0 without one
StatValue(rows, st, stat) ==
    LET hits == SelectSeq(rows, LAMBDA row : row.sensor_type = st /\ row.stat = stat)
    IN  IF hits = <<>> THEN 0 ELSE ParseNumber(ValueOr(hits[Len(hits)].value, "0"))
\* sensor_stats: the types seen with a first and a last measurement
SensorStats(rows) ==
    LET seen(st, stat) == \E i \in DOMAIN rows : rows[i].sensor_type = st /\ rows[i].stat = stat
        types == {st \in SensorTypes : seen(st, "first") /\ seen(st, "last")}
    IN  [st \in types |->
            [device_count |-> StatValue(rows, st, "device_count"),
             total_measurements |-> StatValue(rows, st, "measurement_count")]]

\* ----- the handlers of api/history.py
\* A behaviour is one request: the operation and its parameters are drawn at
\* the start (h_status = 0: not answered yet), the store's answers when the
\* handler issues its queries.  h_store keeps the answers in the order of
\* the queries.
publishVars == <<breakerVars, cfgVars, now, callVars, histVars, mockVars>>

HistoryInit ==
    /\ using_mock = FALSE
    /\ MockIdle
    /\ ServiceIdle
    /\ \/ h_op \in {"history", "aggregated"} /\ h_params \in HistoryParams
       \/ h_op \in {"devices", "stats"} /\ h_params = <<>>
    /\ h_store = <<>>
    /\ h_calls = 0
    /\ h_status = 0
    /\ h_data = <<>>
    /\ h_query = <<>>

\* get_historical_data with query_historical_data
GetHistoricalData ==
    /\ h_op = "history" /\ h_status = 0
    /\ IF ~ParamsValid(h_params)
       THEN /\ h_status' = HistoryStatus("ValidationError")
            /\ UNCHANGED <<h_store, h_calls, h_data, h_query>>
       ELSE \E answer \in RawAnswers :
              /\ h_query' = BuildBaseQuery(h_params)
              /\ h_store' = <<answer>>
              /\ h_calls' = 1
              /\ IF ~answer.ok
                 THEN h_status' = HistoryStatus("StoreError") /\ h_data' = <<>>
                 ELSE h_status' = 200 /\ h_data' = HistoricalPoints(answer.rows)
    /\ UNCHANGED <<h_op, h_params, publishVars>>

\* get_aggregated_data with query_aggregated_data: the aggregation query,
\* then the count query, then count_map (its int() is outside any try), then
\* the points
GetAggregatedData ==
    /\ h_op = "aggregated" /\ h_status = 0
    /\ IF ~ParamsValid(h_params)
       THEN /\ h_status' = HistoryStatus("ValidationError")
            /\ UNCHANGED <<h_store, h_calls, h_data, h_query>>
       ELSE \E answer \in Answers(AggRows) :
              /\ h_query' = BuildBaseQuery(h_params)
              /\ IF ~answer.ok
                 THEN /\ h_store' = <<answer>>
                      /\ h_calls' = 1
                      /\ h_status' = HistoryStatus("StoreError")
                      /\ h_data' = <<>>
                 ELSE \E counts \in Answers(CountRows) :
                        /\ h_store' = <<answer, counts>>
                        /\ h_calls' = 2
                        /\ IF ~counts.ok
                           THEN h_status' = HistoryStatus("StoreError") /\ h_data' = <<>>
                           ELSE IF ~CountRowsOk(counts.rows)
                           THEN h_status' = HistoryStatus("ValueError") /\ h_data' = <<>>
                           ELSE /\ h_status' = 200
                                /\ h_data' = AggregatedPoints(answer.rows, counts.rows)
    /\ UNCHANGED <<h_op, h_params, publishVars>>

\* get_all_devices with get_device_list: the device id query (its int() is
\* outside any try), then _get_device_info for each id
GetAllDevices ==
    /\ h_op = "devices" /\ h_status = 0
    /\ \E ids \in Answers(IdRows) :
         IF ~ids.ok \/ ~DeviceIdsOk(ids.rows)
         THEN /\ h_store' = <<ids>>
              /\ h_calls' = 1
              /\ h_status' = PlainStatus(IF ids.ok THEN "ValueError" ELSE "StoreError")
              /\ h_data' = <<>>
         ELSE LET device_ids == DeviceIds(ids.rows) IN
              \E details \in [DOMAIN device_ids -> DetailAnswers] :
                /\ h_store' = <<ids>> \o details
                /\ h_calls' = 1 + Len(device_ids)
                /\ h_status' = 200
                /\ h_data' = DeviceList(device_ids, details)
    /\ UNCHANGED <<h_op, h_params, h_query, publishVars>>

\* get_sensor_stats with get_sensor_type_stats: one query
GetSensorStats ==
    /\ h_op = "stats" /\ h_status = 0
    /\ \E answer \in StatsAnswers :
         /\ h_store' = <<answer>>
         /\ h_calls' = 1
         /\ IF ~answer.ok \/ StatsRaises(answer.rows)
            THEN /\ h_status' = PlainStatus(IF answer.ok THEN "ValueError" ELSE "StoreError")
                 /\ h_data' = <<>>
            ELSE /\ h_status' = 200
                 /\ h_data' = SensorStats(answer.rows)
    /\ UNCHANGED <<h_op, h_params, h_query, publishVars>>

HistoryNext ==
    \/ GetHistoricalData
    \/ GetAggregatedData
    \/ GetAllDevices
    \/ GetSensorStats

HistorySpec == HistoryInit /\ [][HistoryNext]_vars

\* ===================================================================
\* Properties of the handler's response and of the mock transport
\* ===================================================================

\* C11: submit_sensor_data answers with its success response only after
\* publish_sensor_data returned a message id; when publish_sensor_data raised
\* (retries exhausted, non-transient error, circuit open, unmapped sensor
\* type) the response is an error response.
C11_SuccessOnlyAfterPublish ==
    /\ [](\A c \in Callers :
            /\ status[c] = 201 => err[c] = "none"
            /\ (status[c] # 0 /\ err[c] # "none") => status[c] \in 400..599)
    /\ [][\A c \in Callers :
            (pc[c] # "idle" /\ pc'[c] = "idle") =>
                /\ pc[c] = "pub_returned" => status'[c] = 201
                /\ pc[c] = "pub_raised" => status'[c] \in 400..599
                /\ status'[c] = 201 => (using_mock => returned_ids # <<>>)]_vars

C11_Witness ==
    \E c \in Callers :
        /\ pc[c] = "idle"
        /\ err[c] \in {"RetryError", "CircuitOpen", "PermissionDenied", "ValueError"}
        /\ status[c] = 500

C13_BufferBounded ==
    \A t \in DOMAIN published_messages :
        Len(published_messages[t]) <= max_messages_per_topic

C13_Witness ==
    \E t \in DOMAIN published_messages :
        /\ Len(published_messages[t]) = max_messages_per_topic
        /\ Len(Get(sent, t)) > max_messages_per_topic

\* the last n elements of a sequence
LastN(seq, n) == SubSeq(seq, Len(seq) - n + 1, Len(seq))
Min(a, b) == IF a <= b THEN a ELSE b

\* C14: the buffer of a topic holds the most recent min(k, cap) of the k
\* messages published to it since its last clear, in publish order; a publish
\* to a full buffer drops the oldest message of that topic only.
C14_FifoEviction ==
    /\ [](\A t \in DOMAIN sent \cup DOMAIN published_messages :
            Get(published_messages, t)
                = LastN(Get(sent, t), Min(Len(Get(sent, t)), max_messages_per_topic)))
    /\ [][\A t \in DOMAIN sent :
            (/\ Len(Get(published_messages, t)) = max_messages_per_topic
             /\ Len(Get(sent', t)) = Len(sent[t]) + 1)
            => /\ published_messages'[t] =
                     Append(Tail(published_messages[t]), sent'[t][Len(sent'[t])])
               /\ \A u \in (DOMAIN published_messages) \ {t} :
                     published_messages'[u] = published_messages[u]]_vars

C14_Witness ==
    \E t, u \in DOMAIN published_messages :
        /\ t # u
        /\ Len(sent[t]) = max_messages_per_topic + 1
        /\ published_messages[t] = Tail(sent[t])
        /\ published_messages[u] # <<>>

\* C15: every publish on the mock client returns an id; message_counter grows
\* with each publish and is not reset by a clear, so the ids returned are
\* pairwise different.
C15_UniqueIds ==
    /\ [](/\ \A i, j \in DOMAIN returned_ids :
                i # j => returned_ids[i] # returned_ids[j]
          /\ Len(returned_ids) = message_counter
          /\ using_mock => \A c \in Callers : err[c] \in {"none", "ValueError"})
    /\ [][/\ message_counter' >= message_counter
          /\ returned_ids' # returned_ids => message_counter' > message_counter]_vars

C15_Witness ==
    \E t \in DOMAIN sent :
        /\ message_counter >= 2
        /\ Len(sent[t]) = 1
        /\ sent[t][1].message_id = MessageId(message_counter)
        /\ \A u \in (DOMAIN sent) \ {t} : sent[u] = <<>>

\* C16: once publish_sensor_data has returned through the mock transport, the
\* newest message get_published_messages shows for the topic of the reading's
\* sensor_type decodes to the reading's device_id, sensor_type and value, and
\* that message is in no other topic.
C16_RoundTrip ==
    \A c \in Callers :
        (using_mock /\ pc[c] = "pub_returned") =>
            LET r == reading[c]
                t == TopicMapping[r.sensor_type]
                messages == GetPublishedMessages(published_messages, t)
                newest == messages[Len(messages)]
            IN  /\ r.sensor_type \in DOMAIN TopicMapping
                /\ Len(messages) > 0
                /\ newest.data.device_id = r.device_id
                /\ newest.data.sensor_type = r.sensor_type
                /\ newest.data.value = r.value
                /\ \A u \in (DOMAIN published_messages) \ {t} :
                      \A i \in DOMAIN published_messages[u] :
                          published_messages[u][i].message_id # newest.message_id

C16_Witness ==
    \E c \in Callers :
        /\ using_mock
        /\ pc[c] = "pub_returned"
        /\ reading[c].device_id = 2
        /\ Len(Get(published_messages, "sensor-temperature")) = 2
        /\ Get(published_messages, "sensor-humidity") # <<>>

\* ===================================================================
\* Properties of the history read path
\* ===================================================================

\* the request has been answered
RequestAnswered == h_status # 0
\* one of the store queries the handler issued failed
SubQueryFailed == \E k \in DOMAIN h_store : ~h_store[k].ok
\* every store query the handler issued was answered with tables
AllAnswered == h_calls > 0 /\ \A k \in DOMAIN h_store : h_store[k].ok

\* C17: in aggregated history, device list and sensor-type stats, a failed
\* store sub-query fails the whole operation: no success response built from
\* the sub-queries that did succeed is returned.
C17_SubQueryFailureFailsAll ==
    (h_op \in {"aggregated", "devices", "stats"} /\ RequestAnswered /\ SubQueryFailed)
        => h_status \in 400..599

\* the parameter invariants of HistoryQueryParams, as the claims word them
ParamInvariantViolated(p) ==
    \/ p.end_time <= p.start_time
    \/ p.latitude_min # None /\ p.latitude_max # None /\ p.latitude_max <= p.latitude_min
    \/ p.longitude_min # None /\ p.longitude_max # None /\ p.longitude_max <= p.longitude_min

\* C18: when every store query of a history operation was answered, rows with
\* an unparseable value are skipped one by one: the operation succeeds, and
\* the result has an item for every well-formed row.
C18_BadRowsSkipped ==
    (RequestAnswered /\ AllAnswered) =>
        /\ h_status = 200
        /\ h_op = "history" => h_data = HistoricalPoints(h_store[1].rows)
        /\ h_op = "aggregated" => Len(h_data) = Len(SelectSeq(h_store[1].rows, AggRowOk))

\* C19: raw and aggregated history with end_time <= start_time, or with
\* latitude_max <= latitude_min or longitude_max <= longitude_min when both
\* bounds are given, is answered with a validation error and no store query
\* is issued.
C19_InvalidParamsRejected ==
    (h_op \in {"history", "aggregated"} /\ RequestAnswered /\ ParamInvariantViolated(h_params))
        => (h_status = 422 /\ h_calls = 0 /\ h_store = <<>>)

C19_Witness ==
    /\ h_op = "aggregated"
    /\ h_status = 422
    /\ h_params.start_time = h_params.end_time
    /\ h_params.latitude_min = None
    /\ h_params.longitude_max = None

\* C20: a history request is answered 422 only when a parameter invariant is
\* violated; a failure of a store query, or of the processing of its rows, is
\* answered 500.
C20_ValidationOnlyForParams ==
    (h_op \in {"history", "aggregated"} /\ RequestAnswered) =>
        /\ h_status = 422 => ParamInvariantViolated(h_params)
        /\ (h_calls > 0 /\ h_status # 200) => h_status = 500

\* ===================================================================
\* The history read path: results
\* ===================================================================

\* the aggregation rows of the answered request that became points
GoodAggRows == SelectSeq(h_store[1].rows, AggRowOk)
\* the count rows of the answered request that have the key of a row
CountRowsOf(row) ==
    {i \in DOMAIN h_store[2].rows : Key(h_store[2].rows[i]) = Key(row)}

\* C21: every point of an answered aggregation request stands for one
\* well-formed aggregation row, in order, none dropped; its count is the
\* value of the count row with the same (sensor_type, device_id), and 0
\* when the count result has no row with that key.
C21_CountJoin ==
    (h_op = "aggregated" /\ h_status = 200) =>
        /\ Len(h_data) = Len(GoodAggRows)
        /\ \A i \in DOMAIN h_data :
              /\ h_data[i].sensor_type = GoodAggRows[i].sensor_type
              /\ \A j \in CountRowsOf(GoodAggRows[i]) :
                    h_data[i].count = ParseNumber(h_store[2].rows[j].value)
              /\ CountRowsOf(GoodAggRows[i]) = {} => h_data[i].count = 0

\* a group whose count result holds only a row of another key was returned
\* with count 0
C21_Witness ==
    /\ h_op = "aggregated" /\ h_status = 200
    /\ Len(h_data) = 1 /\ h_data[1].count = 0
    /\ Len(h_store[2].rows) = 1
    /\ Key(h_store[2].rows[1]) # Key(GoodAggRows[1])

\* C22: the points of an answered raw history request are in ascending
\* order of timestamp over the whole list.
C22_SortedByTime ==
    (h_op = "history" /\ h_status = 200) =>
        \A i, j \in DOMAIN h_data : i < j => h_data[i].timestamp <= h_data[j].timestamp

\* the detail answers of an answered device list request, in the order of
\* the device ids
DetailOf(k) == h_store[k + 1]
\* the detail answer has a valid sensor type, a first and a last record
HasAllFacets(answer) ==
    /\ \E i \in DOMAIN answer.rows : IsSensorType(answer.rows[i].sensor_type)
    /\ \E i \in DOMAIN answer.rows : answer.rows[i].stat = "first"
    /\ \E i \in DOMAIN answer.rows : answer.rows[i].stat = "last"

\* C23: every DeviceInfo of an answered device list request has a sensor
\* type, a first_seen and a last_seen; a device whose detail result lacks
\* one of them is not in the list, and the request is answered 200 all the
\* same.
C23_CompleteDevicesOnly ==
    (h_op = "devices" /\ h_status # 0) =>
        /\ \A i \in DOMAIN h_data :
              /\ h_data[i].sensor_types # {}
              /\ h_data[i].first_seen # NoTime
              /\ h_data[i].last_seen # NoTime
        /\ h_calls > 1 =>
              /\ h_status = 200
              /\ Len(h_data) <= Cardinality({k \in 1..(h_calls - 1) : HasAllFacets(DetailOf(k))})

\* of two devices, the one whose detail result has no last record was left
\* out and the other returned
C23_Witness ==
    /\ h_op = "devices" /\ h_status = 200
    /\ h_calls = 3 /\ Len(h_data) = 1
    /\ HasAllFacets(DetailOf(1))
    /\ DetailOf(2) = Answered(<<TypeRow("temperature"), FirstRow>>)

\* the pipeline has a clause on the column with the operator
HasClause(query, column, op) ==
    \E i \in DOMAIN query : query[i][1] = column /\ query[i][2] = op

\* C24: the pipeline built for a request with valid parameters has the time
\* range and the measurement filter, and has the sensor_type, device_id,
\* latitude_min, latitude_max, longitude_min and longitude_max clause exactly
\* when that parameter was supplied, whatever the other parameters are.
C24_ClausePerParameter ==
    (h_op \in {"history", "aggregated"} /\ h_calls > 0) =>
        /\ HasClause(h_query, "_time", "range")
        /\ HasClause(h_query, "_measurement", "==")
        /\ HasClause(h_query, "sensor_type", "==") <=> h_params.sensor_type # NoSensorType
        /\ HasClause(h_query, "device_id", "==") <=> h_params.device_id # None
        /\ HasClause(h_query, "latitude", ">=") <=> h_params.latitude_min # None
        /\ HasClause(h_query, "latitude", "<=") <=> h_params.latitude_max # None
        /\ HasClause(h_query, "longitude", ">=") <=> h_params.longitude_min # None
        /\ HasClause(h_query, "longitude", "<=") <=> h_params.longitude_max # None

\* a pipeline was built for a request that gave latitude_min = 0 and
\* a sensor type, and neither device_id nor a longitude bound
C24_Witness ==
    /\ h_op = "history" /\ h_calls > 0
    /\ h_params.latitude_min = 0 /\ h_params.sensor_type = "temperature"
    /\ h_params.device_id = None
    /\ h_params.longitude_min = None /\ h_params.longitude_max = None
    /\ Len(h_query) = IF h_params.latitude_max = None THEN 5 ELSE 6

\* ===================================================================
\* The circuit breaker: further properties
\* ===================================================================

\* the step with which the call of caller c returns from _on_success
Succeeds(c) == pc[c] = "on_success_state" /\ pc'[c] = "pub_returned"

\* C25: under sequential calls, a call that succeeds on a CLOSED breaker
\* leaves it CLOSED with failure_count = 0; between calls a CLOSED breaker's
\* failure_count is the number of failures since the last success; and the
\* breaker leaves CLOSED only for OPEN, with the failure that makes
\* failure_threshold of them in a row.
C25_SuccessResetsCount ==
    /\ [][\A c \in Callers :
            (Succeeds(c) /\ state = CLOSED) => (state' = CLOSED /\ failure_count' = 0)]_vars
    /\ []((Quiescent /\ state = CLOSED) => failure_count = streak)
    /\ [][(state = CLOSED /\ state' # CLOSED) =>
            (state' = OPEN /\ streak' >= failure_threshold)]_vars

\* with a threshold of 2: a failure, a success and a failure have completed,
\* and the breaker is CLOSED with failure_count = 1
C25_Witness ==
    /\ Quiescent
    /\ failure_threshold = 2
    /\ nFail = 2 /\ nOk = 1 /\ nRej = 0
    /\ state = CLOSED /\ failure_count = 1

\* the mock transport has been handed the payload of caller c's reading
MockHanded(c) == using_mock /\ pc[c] = "pub_returned"
\* the payload the mock transport was handed last for the topic
NewestPayload(topic_name) ==
    LET buf == Get(published_messages, topic_name) IN buf[Len(buf)].data

\* C26 as stated: whichever transport is handed the payload of a reading,
\* the reading has been transformed to the wire schema before.
C26_NormalizedBeforeBranch ==
    \A c \in Callers : (MockHanded(c) \/ InCall(c)) => normalized[c]

\* C26, amended: the transformation is applied on the real transport's path
\* only, and the mock transport is handed the serialised sensor_dict as the
\* handler built it; that payload is the very payload the real path builds
\* from the same reading, sensor_dict being in the wire schema already.
C26_SamePayload ==
    \A c \in Callers :
        /\ InCall(c) => normalized[c]
        /\ MockHanded(c) =>
              /\ ~normalized[c]
              /\ Get(published_messages, TopicOf(reading[c].sensor_type)) # <<>>
              /\ NewestPayload(TopicOf(reading[c].sensor_type))
                    = JsonDumps(TransformForAvroSchema(SensorDict(reading[c]), now))

\* the mock transport holds the payload of a humidity reading that has not
\* been answered yet
C26_Witness ==
    \E c \in Callers :
        /\ MockHanded(c)
        /\ reading[c].sensor_type = "humidity"
        /\ NewestPayload("sensor-humidity")[4] = <<"timestamp", "string", IsoFormat(2)>>

\* C27: under concurrent callers, a step taken while the breaker is OPEN
\* leaves it OPEN or moves it to HALF_OPEN, never to CLOSED, and does not
\* reset failure_count.
C27_OpenLeavesByProbeOnly ==
    [][state = OPEN =>
          /\ state' \in {OPEN, HALF_OPEN}
          /\ failure_count > 0 => failure_count' > 0]_vars

\* caller c is inside the wrapped operation (_publish_message)
InOperation(c) == pc[c] = "invoke"

\* C28: while the breaker is HALF_OPEN at most one call is inside the
\* wrapped operation, and a call that arrives while another is inside it is
\* not passed through to the operation.
C28_SingleProbe ==
    /\ [](state = HALF_OPEN => Cardinality({c \in Callers : InOperation(c)}) <= 1)
    /\ [][\A c \in Callers :
            (state = HALF_OPEN /\ pc[c] = "cb_gate" /\ InOperation(c)') =>
                \A d \in Others(c) : ~InOperation(d)]_vars

\* no caller is between the first and the last assignment of _on_success
\* or of _on_failure
Settled == \A c \in Callers : pc[c] \notin {"on_success_state", "on_failure_time", "on_failure_check"}

\* C29: under sequential calls, whenever no _on_success or _on_failure is
\* half-way: an OPEN or HALF_OPEN breaker has failure_count >=
\* failure_threshold and a last_failure_time, and a CLOSED breaker has
\* failure_count < failure_threshold.
C29_StateMatchesCount ==
    Settled =>
        /\ state \in {OPEN, HALF_OPEN} =>
              (failure_count >= failure_threshold /\ last_failure_time # None)
        /\ state = CLOSED => failure_count < failure_threshold

\* the probe of a HALF_OPEN breaker is inside the operation, after a
\* rejected call
C29_Witness ==
    /\ Settled
    /\ state = HALF_OPEN
    /\ nRej > 0
    /\ \E c \in Callers : InOperation(c)

\* ===================================================================
\* Recovery of the breaker
\* ===================================================================

\* The service with the real transport, requests handled one after
\* another, under the conditions of a service that is in use: time
\* advances, a call that has started runs to its response, and publishes of
\* a mapped sensor type keep arriving.
Arrive == Submit(Client) /\ pc'[Client] = "cb_gate"
Proceed == Step(Client) /\ pc[Client] # "idle"
LiveNext ==
    \/ Tick
    \/ Step(Client)
LiveSpec ==
    /\ Init
    /\ [][LiveNext]_vars
    /\ WF_vars(Tick)
    /\ WF_vars(Proceed)
    /\ SF_vars(Arrive)

\* recovery_timeout has passed since the last failure
TimeoutElapsed ==
    last_failure_time # None /\ now - last_failure_time >= recovery_timeout
\* the breaker is CLOSED again with failure_count = 0
Recovered == state = CLOSED /\ failure_count = 0

\* C30: within the horizon of the model (time up to MaxTime, MaxCalls
\* breaker calls), an OPEN breaker does not stay OPEN: recovery_timeout
\* elapses if the clock can reach it, and once it has elapsed and a call can
\* still be made, the breaker is CLOSED with failure_count = 0 eventually,
\* unless the wrapped operation fails once more.
C30_OpenNotPermanent ==
    /\ (state = OPEN /\ last_failure_time + recovery_timeout <= MaxTime)
           ~> (state # OPEN \/ TimeoutElapsed)
    /\ \A n \in 0..MaxCalls :
          (state = OPEN /\ TimeoutElapsed /\ Started < MaxCalls /\ nFail = n)
             ~> (Recovered \/ nFail > n)

\* the breaker was opened, a call was rejected, and it is CLOSED again
C30_Witness ==
    /\ Recovered
    /\ Quiescent
    /\ nFail >= failure_threshold /\ nRej > 0 /\ nOk > 0
    /\ streak = 0

====
